---- MODULE Spec2Model ----
(***************************************************************************)
(* A model of fit2gpx.py: FitParser (the byte cursor, the definition       *)
(* table, the message loop, the field decoder), records_to_gpx and the     *)
(* script's main block.  One run of the script on one input file.          *)
(* And a model of the web service in app/backend: the cached tile and      *)
(* search endpoints of main.py, and the export job of worker.py with the   *)
(* status endpoint that reports on it.                                     *)
(***************************************************************************)
EXTENDS Integers, Sequences, FiniteSets, TLC

VARIABLES
    argv,            \* len(sys.argv): the script name and the arguments
    stdout,          \* the lines printed to standard output
    opened,          \* whether the input path has been opened
    exit_status,     \* the exit status of the script, None while it runs
    data,            \* the input file; FitParser.data once it is read
    pc,              \* where the script is: "main", "exited", "start", "loop",
                     \* "returned", "written", "raised"
    pos,             \* FitParser.pos (0-based offset into data)
    end,             \* local `end` of parse(): header_size + data_size
    defs,            \* FitParser.defs: local slot -> definition
    last_timestamp,  \* FitParser.last_timestamp (None or a decoded value)
    records,         \* local `records` of parse(), then of the main block
    fields,          \* local `fields` of parse(): the last decoded message
    err,             \* the exception that ended the run, "none" while there is none
    output,          \* the contents written to the output path, None while unwritten
    log,             \* history: offsets of the message header bytes read so far
    active,          \* which FitParser instance the variables above belong to
    passes,          \* the other FitParser instances of the process, each with
                     \* its own attributes and the locals of its parse() call
    redis,           \* the Redis keys that are set and unexpired, with their values
    expired,         \* history: the keys whose time to live has run out
    amenities,       \* the rows of the amenities table
    requests,        \* the HTTP requests: the handler's locals, where it is,
                     \* and its response once it has answered
    jobs,            \* the RQ jobs: their status, and where process_gpx_job is
    files            \* the files of settings.gpx_output_dir and their contents

vars ==
    <<argv, stdout, opened, exit_status,
      data, pc, pos, end, defs, last_timestamp, records, fields, err, output, log,
      active, passes,
      redis, expired, amenities, requests, jobs, files>>

(* The state of the web service, which the script does not touch.          *)
service_vars == <<redis, expired, amenities, requests, jobs, files>>

(* What no step of FitParser or of records_to_gpx touches: the state of    *)
(* the main block and the other FitParser instances.                       *)
main_vars == <<argv, stdout, opened, active, passes, service_vars>>

-----------------------------------------------------------------------------
(* Python values.  Every decoded value carries its Python type.            *)

None == [kind |-> "None", v |-> 0]
IntV(n) == [kind |-> "int", v |-> n]
BytesV(s) == [kind |-> "bytes", v |-> s]
StrV(s) == [kind |-> "str", v |-> s]
FloatV(s) == [kind |-> "float", v |-> s]
TupleV(s) == [kind |-> "tuple", v |-> s]

EmptyDict == [k \in {} |-> None]
Put(d, k, x) == [j \in (DOMAIN d) \cup {k} |-> IF j = k THEN x ELSE d[j]]

Min(a, b) == IF a < b THEN a ELSE b

RECURSIVE Pow2(_)
Pow2(n) == IF n = 0 THEN 1 ELSE 2 * Pow2(n - 1)

(* An outcome of a call: the exception raised ("none" if it returned) and  *)
(* the value returned.                                                     *)
Ok(x) == [err |-> "none", val |-> x]
Raise(e) == [err |-> e, val |-> None]

-----------------------------------------------------------------------------
(* struct: the numeric value of a byte string in a byte order.             *)

RECURSIVE BigEndian(_)
BigEndian(bs) ==
    IF Len(bs) = 0 THEN 0
    ELSE 256 * BigEndian(SubSeq(bs, 1, Len(bs) - 1)) + bs[Len(bs)]

Reverse(s) == [i \in 1..Len(s) |-> s[Len(s) + 1 - i]]

Unsigned(bs, endian) == IF endian = ">" THEN BigEndian(bs) ELSE BigEndian(Reverse(bs))

(* Two's complement: the most significant byte counts from -128 to 127.    *)
Signed(bs, endian) ==
    LET be == IF endian = ">" THEN bs ELSE Reverse(bs)
        top == IF be[1] >= 128 THEN be[1] - 256 ELSE be[1]
    IN top * Pow2(8 * (Len(bs) - 1)) + BigEndian(Tail(be))

base_formats ==
    [n \in 0..16 |->
        CASE n \in {0, 2, 10, 13} -> "B"
          [] n = 1 -> "b"
          [] n = 3 -> "h"
          [] n \in {4, 11} -> "H"
          [] n = 5 -> "i"
          [] n \in {6, 12} -> "I"
          [] n = 7 -> "s"
          [] n = 8 -> "f"
          [] n = 9 -> "d"
          [] n = 14 -> "q"
          [] OTHER -> "Q"]

calcsize(fmt) ==
    CASE fmt \in {"B", "b", "s"} -> 1
      [] fmt \in {"h", "H"} -> 2
      [] fmt \in {"i", "I", "f"} -> 4
      [] OTHER -> 8

(* One item of struct.unpack: bs has exactly calcsize(fmt) bytes.  A float *)
(* is kept as its bytes in big-endian order.                               *)
unpack_item(fmt, endian, bs) ==
    CASE fmt \in {"B", "H", "I", "Q"} -> IntV(Unsigned(bs, endian))
      [] fmt \in {"b", "h", "i", "q"} -> IntV(Signed(bs, endian))
      [] fmt = "s" -> BytesV(bs)
      [] OTHER -> FloatV(IF endian = ">" THEN bs ELSE Reverse(bs))

(* bytes.decode('utf-8').rstrip('\x00') of a one-byte string.              *)
decode_utf8_rstrip(b) ==
    IF b.v[1] >= 128 THEN Raise("UnicodeDecodeError")
    ELSE IF b.v[1] = 0 THEN Ok(StrV(<<>>))
    ELSE Ok(StrV(b.v))

parse_value_first_item(raw, base_type, endian) ==
    LET base_num == base_type % 32 IN
    IF base_num \notin DOMAIN base_formats THEN Ok(BytesV(raw))
    ELSE
        LET fmt == base_formats[base_num]
            size == calcsize(fmt)
        IN  IF Len(raw) < size THEN Raise("struct.error")
            ELSE IF base_type = 7 THEN decode_utf8_rstrip(BytesV(SubSeq(raw, 1, 1)))
            ELSE Ok(unpack_item(fmt, endian, SubSeq(raw, 1, size)))

(* FitParser.parse_value: struct.unpack of count items, then the text      *)
(* branch or the scalar-or-tuple return.                                   *)
parse_value(raw, base_type, endian) ==
    LET base_num == base_type % 32 IN
    IF base_num \notin DOMAIN base_formats THEN Ok(BytesV(raw))
    ELSE
        LET fmt == base_formats[base_num]
            size == calcsize(fmt)
            count == Len(raw) \div size
        IN  IF Len(raw) # size * count THEN Raise("struct.error")
            ELSE
                LET vals == [i \in 1..count |->
                                unpack_item(fmt, endian,
                                            SubSeq(raw, (i - 1) * size + 1, i * size))]
                IN  IF base_type = 7
                    THEN IF count = 0 THEN Raise("IndexError")
                         ELSE decode_utf8_rstrip(vals[1])
                    ELSE IF count = 1 THEN Ok(vals[1]) ELSE Ok(TupleV(vals))

-----------------------------------------------------------------------------
(* The byte cursor.                                                        *)

(* data[p : p + size]: a slice, shorter than size at the end of the data.  *)
read(p, size) == SubSeq(data, p + 1, Min(p + size, Len(data)))

-----------------------------------------------------------------------------
(* The definition table.                                                   *)

get_global(dtab, local_msg) ==
    IF local_msg \in DOMAIN dtab THEN IntV(dtab[local_msg].global) ELSE None

define_keep_first(dtab, local_msg, d) ==
    IF local_msg \in DOMAIN dtab THEN dtab ELSE Put(dtab, local_msg, d)

define_reset(dtab, local_msg, d) == Put(EmptyDict, local_msg, d)

(* self.defs[local_msg] = {...}                                            *)
define(dtab, local_msg, d) == Put(dtab, local_msg, d)

(* The loop over the field triplets of parse_definition, from triplet k,   *)
(* with the cursor at p.                                                   *)
RECURSIVE read_triplets(_, _, _, _)
read_triplets(k, num_fields, p, acc) ==
    IF k > num_fields THEN [err |-> "none", pos |-> p, fields |-> acc]
    ELSE IF Len(read(p, 1)) = 0 THEN [err |-> "IndexError", pos |-> p + 1, fields |-> acc]
    ELSE IF Len(read(p + 1, 1)) = 0 THEN [err |-> "IndexError", pos |-> p + 2, fields |-> acc]
    ELSE IF Len(read(p + 2, 1)) = 0 THEN [err |-> "IndexError", pos |-> p + 3, fields |-> acc]
    ELSE read_triplets(k + 1, num_fields, p + 3,
                       Append(acc, <<read(p, 1)[1], read(p + 1, 1)[1], read(p + 2, 1)[1]>>))

NoDef == [global |-> 0, fields |-> <<>>, endian |-> "<"]

parse_definition_arch_one(p) ==
    IF Len(read(p + 1, 1)) = 0
    THEN [err |-> "IndexError", pos |-> p + 2, def |-> NoDef]
    ELSE
        LET endian == IF read(p + 1, 1)[1] = 1 THEN ">" ELSE "<"
        IN  IF Len(read(p + 2, 2)) # 2
            THEN [err |-> "struct.error", pos |-> p + 4, def |-> NoDef]
            ELSE IF Len(read(p + 4, 1)) = 0
            THEN [err |-> "IndexError", pos |-> p + 5, def |-> NoDef]
            ELSE
                LET t == read_triplets(1, read(p + 4, 1)[1], p + 5, <<>>)
                IN  [err |-> t.err, pos |-> t.pos,
                     def |-> [global |-> Unsigned(read(p + 2, 2), endian),
                              fields |-> t.fields, endian |-> endian]]

parse_definition_rewind(p) ==
    LET d == parse_definition_arch_one(p)
    IN [err |-> d.err, pos |-> p - 1, def |-> d.def]

(* parse_definition with the cursor at p (just after the header byte):     *)
(* the exception, the cursor afterwards and the definition read.           *)
parse_definition(p) ==
    IF Len(read(p + 1, 1)) = 0
    THEN [err |-> "IndexError", pos |-> p + 2, def |-> NoDef]
    ELSE
        LET arch == read(p + 1, 1)[1]
            endian == IF arch # 0 THEN ">" ELSE "<"
        IN  IF Len(read(p + 2, 2)) # 2
            THEN [err |-> "struct.error", pos |-> p + 4, def |-> NoDef]
            ELSE IF Len(read(p + 4, 1)) = 0
            THEN [err |-> "IndexError", pos |-> p + 5, def |-> NoDef]
            ELSE
                LET global_msg == Unsigned(read(p + 2, 2), endian)
                    num_fields == read(p + 4, 1)[1]
                    t == read_triplets(1, num_fields, p + 5, <<>>)
                IN  [err |-> t.err, pos |-> t.pos,
                     def |-> [global |-> global_msg, fields |-> t.fields,
                              endian |-> endian]]

-----------------------------------------------------------------------------
(* Data messages.                                                          *)

(* The loop over d['fields'] of parse_data_message, from field i, with the *)
(* cursor at p.                                                            *)
RECURSIVE data_fields(_, _, _, _, _)
data_fields(fs, i, p, endian, acc) ==
    IF i > Len(fs) THEN [err |-> "none", pos |-> p, fields |-> acc]
    ELSE
        LET size == fs[i][2]
            value == parse_value(read(p, size), fs[i][3], endian)
        IN  IF value.err # "none"
            THEN [err |-> value.err, pos |-> p + size, fields |-> acc]
            ELSE data_fields(fs, i + 1, p + size, endian, Put(acc, fs[i][1], value.val))

parse_data_message_lenient(dtab, local_msg, p) ==
    IF local_msg \notin DOMAIN dtab
    THEN [err |-> "none", pos |-> p, fields |-> EmptyDict]
    ELSE data_fields(dtab[local_msg].fields, 1, p, dtab[local_msg].endian, EmptyDict)

(* parse_data_message with the cursor at p (just after the header byte).   *)
parse_data_message(dtab, local_msg, p) ==
    IF local_msg \notin DOMAIN dtab
    THEN [err |-> "ValueError", pos |-> p, fields |-> EmptyDict]
    ELSE data_fields(dtab[local_msg].fields, 1, p, dtab[local_msg].endian, EmptyDict)

-----------------------------------------------------------------------------
(* The timestamp rules of parse().                                         *)

compressed_ts_no_equal(T, time_offset) ==
    LET ts == (T - (T % 32)) + time_offset
    IN IF ts < T THEN ts + 32 ELSE ts

(* ts = (last_timestamp & ~0x1F) + time_offset; if ts <= last: ts += 0x20  *)
compressed_ts(T, time_offset) ==
    LET ts == (T - (T % 32)) + time_offset
    IN IF ts <= T THEN ts + 32 ELSE ts

inject_ts_setdefault(fs, ts) == IF 253 \in DOMAIN fs THEN fs ELSE Put(fs, 253, IntV(ts))

(* fields[253] = ts                                                        *)
inject_ts(fs, ts) == Put(fs, 253, IntV(ts))

data_timestamp_no_inherit(fs, last) ==
    IF 253 \in DOMAIN fs THEN [fields |-> fs, last |-> fs[253]]
    ELSE [fields |-> fs, last |-> last]

(* The timestamp branch of a normal data message: the fields forwarded and *)
(* the new last_timestamp.                                                 *)
data_timestamp(fs, last) ==
    IF 253 \in DOMAIN fs THEN [fields |-> fs, last |-> fs[253]]
    ELSE IF last # None THEN [fields |-> Put(fs, 253, last), last |-> last]
    ELSE [fields |-> fs, last |-> last]

forward_always(recs, fs, g) == Append(recs, fs)

(* if self.get_global(local_msg) == 20: records.append(fields)             *)
forward(recs, fs, g) == IF g = IntV(20) THEN Append(recs, fs) ELSE recs

-----------------------------------------------------------------------------
(* records_to_gpx.                                                         *)

IsNumber(x) == x.kind \in {"int", "float"}

Abs(n) == IF n < 0 THEN 0 - n ELSE n

(* n / d rounded to the nearest integer, ties to even (n >= 0, d > 0).     *)
RoundHalfEven(n, d) ==
    LET q == n \div d
        r == n % d
    IN  IF 2 * r > d \/ (2 * r = d /\ q % 2 = 1) THEN q + 1 ELSE q

(* f"{x * 180 / 2**31:.6f}": the sign and the millionths of a degree.      *)
(* 180 * 10^6 / 2^31 = 703125 / 2^23.  A float stays as it is.             *)
format_degrees(x) ==
    IF x.kind = "int"
    THEN [neg |-> x.v < 0, e6 |-> RoundHalfEven(Abs(x.v) * 703125, Pow2(23))]
    ELSE [neg |-> FALSE, e6 |-> x]

format_elevation_no_offset(x) == IF x.kind = "int" THEN IntV(20 * x.v) ELSE x

(* f"{x / 5.0 - 500:.2f}" in hundredths of a metre.                        *)
format_elevation(x) == IF x.kind = "int" THEN IntV(20 * x.v - 50000) ELSE x

FIT_EPOCH == [year |-> 1989, month |-> 12, day |-> 31, hour |-> 0, minute |-> 0, second |-> 0]

(* (FIT_EPOCH + timedelta(seconds=x)).isoformat() + 'Z': the instant as    *)
(* whole days and seconds of the day after FIT_EPOCH, as timedelta keeps   *)
(* them.  Every integer of the model is within datetime's range.           *)
format_time(x) ==
    IF x.kind = "int"
    THEN [kind |-> "datetime",
          v |-> [epoch |-> FIT_EPOCH, days |-> x.v \div 86400, seconds |-> x.v % 86400]]
    ELSE x

track_point_no_time(r) ==
    IF ~(0 \in DOMAIN r /\ 1 \in DOMAIN r) THEN Ok(<<>>)
    ELSE Ok(<<[lat |-> format_degrees(r[0]),
               lon |-> format_degrees(r[1]),
               ele |-> IF 2 \in DOMAIN r THEN format_elevation(r[2]) ELSE None,
               time |-> None]>>)

(* The body of the loop of records_to_gpx for one record: the exception    *)
(* and the trkpt elements added (none or one).                             *)
track_point(r) ==
    IF ~(0 \in DOMAIN r /\ 1 \in DOMAIN r) THEN Ok(<<>>)
    ELSE IF ~IsNumber(r[0]) \/ ~IsNumber(r[1]) THEN Raise("TypeError")
    ELSE IF 2 \in DOMAIN r /\ ~IsNumber(r[2]) THEN Raise("TypeError")
    ELSE IF 253 \in DOMAIN r /\ ~IsNumber(r[253]) THEN Raise("TypeError")
    ELSE Ok(<<[lat |-> format_degrees(r[0]),
               lon |-> format_degrees(r[1]),
               ele |-> IF 2 \in DOMAIN r THEN format_elevation(r[2]) ELSE None,
               time |-> IF 253 \in DOMAIN r THEN format_time(r[253]) ELSE None]>>)

(* records_to_gpx: the exception, and the trkseg written to out_path.      *)
RECURSIVE records_to_gpx(_, _, _)
records_to_gpx(recs, i, trkseg) ==
    IF i > Len(recs) THEN Ok(TupleV(trkseg))
    ELSE
        LET t == track_point(recs[i])
        IN  IF t.err # "none" THEN Raise(t.err)
            ELSE records_to_gpx(recs, i + 1, trkseg \o t.val)

-----------------------------------------------------------------------------
(* FitParser.parse, one action per header read.                            *)

HeaderAvailable == pos < Len(data)
HeaderByte == data[pos + 1]
IsCompressed(h) == h >= 128
IsDefinition(h) == h < 128 /\ (h \div 64) % 2 = 1
IsData(h) == h < 128 /\ (h \div 64) % 2 = 0
CompressedSlot(h) == (h \div 32) % 4
CompressedOffset(h) == h % 32
NormalSlot_six_bits(h) == h % 64

NormalSlot(h) == h % 16

(* An exception leaves parse(): the script ends with a traceback and exit  *)
(* status 1.                                                               *)
Raised(e, p) ==
    /\ pc' = "raised"
    /\ exit_status' = IntV(1)
    /\ err' = e
    /\ pos' = p

(* header_size = data[0]; data_size = unpack_from('<I', data, 4);          *)
(* self.pos = header_size; end = header_size + data_size; records = []     *)
ParseHeader ==
    /\ pc = "start"
    /\ IF Len(data) = 0
       THEN Raised("IndexError", pos) /\ UNCHANGED end
       ELSE IF Len(data) < 8
       THEN Raised("struct.error", pos) /\ UNCHANGED end
       ELSE /\ pc' = "loop"
            /\ pos' = data[1]
            /\ end' = data[1] + Unsigned(SubSeq(data, 5, 8), "<")
            /\ UNCHANGED <<err, exit_status>>
    /\ UNCHANGED <<data, defs, last_timestamp, records, fields, output, log>>
    /\ UNCHANGED main_vars

(* header = self.read(1)[0] with no byte left.                             *)
ReadHeaderPastData ==
    /\ pc = "loop"
    /\ pos < end
    /\ ~HeaderAvailable
    /\ Raised("IndexError", pos + 1)
    /\ UNCHANGED <<data, end, defs, last_timestamp, records, fields, output, log>>
    /\ UNCHANGED main_vars

CompressedMessage ==
    /\ pc = "loop"
    /\ pos < end
    /\ HeaderAvailable
    /\ IsCompressed(HeaderByte)
    /\ log' = Append(log, pos)
    /\ LET local_msg == CompressedSlot(HeaderByte)
           time_offset == CompressedOffset(HeaderByte)
           last == IF last_timestamp = None THEN IntV(0) ELSE last_timestamp
       IN  IF last.kind # "int"
           THEN /\ Raised("TypeError", pos + 1)
                /\ UNCHANGED <<last_timestamp, records, fields>>
           ELSE
               LET ts == compressed_ts(last.v, time_offset)
                   m == parse_data_message(defs, local_msg, pos + 1)
               IN  /\ last_timestamp' = IntV(ts)
                   /\ IF m.err # "none"
                      THEN Raised(m.err, m.pos) /\ UNCHANGED <<records, fields>>
                      ELSE /\ fields' = inject_ts(m.fields, ts)
                           /\ records' = forward(records, fields', get_global(defs, local_msg))
                           /\ pos' = m.pos
                           /\ UNCHANGED <<pc, err, exit_status>>
    /\ UNCHANGED <<data, end, defs, output>>
    /\ UNCHANGED main_vars

DefinitionMessage ==
    /\ pc = "loop"
    /\ pos < end
    /\ HeaderAvailable
    /\ IsDefinition(HeaderByte)
    /\ log' = Append(log, pos)
    /\ LET local_msg == NormalSlot(HeaderByte)
           d == parse_definition(pos + 1)
       IN  IF d.err # "none"
           THEN Raised(d.err, d.pos) /\ UNCHANGED defs
           ELSE /\ defs' = define(defs, local_msg, d.def)
                /\ pos' = d.pos
                /\ UNCHANGED <<pc, err, exit_status>>
    /\ UNCHANGED <<data, end, last_timestamp, records, fields, output>>
    /\ UNCHANGED main_vars

DataMessage_per_kind ==
    /\ pc = "loop"
    /\ pos < end
    /\ HeaderAvailable
    /\ IsData(HeaderByte)
    /\ log' = Append(log, pos)
    /\ LET local_msg == NormalSlot(HeaderByte)
           m == parse_data_message(defs, local_msg, pos + 1)
       IN  IF m.err # "none"
           THEN Raised(m.err, m.pos) /\ UNCHANGED <<last_timestamp, records, fields>>
           ELSE
               LET t == IF get_global(defs, local_msg) = IntV(20)
                        THEN data_timestamp(m.fields, last_timestamp)
                        ELSE [fields |-> m.fields, last |-> last_timestamp]
               IN  /\ fields' = t.fields
                   /\ last_timestamp' = t.last
                   /\ records' = forward(records, t.fields, get_global(defs, local_msg))
                   /\ pos' = m.pos
                   /\ UNCHANGED <<pc, err, exit_status>>
    /\ UNCHANGED <<data, end, defs, output>>
    /\ UNCHANGED main_vars

DataMessage ==
    /\ pc = "loop"
    /\ pos < end
    /\ HeaderAvailable
    /\ IsData(HeaderByte)
    /\ log' = Append(log, pos)
    /\ LET local_msg == NormalSlot(HeaderByte)
           m == parse_data_message(defs, local_msg, pos + 1)
       IN  IF m.err # "none"
           THEN Raised(m.err, m.pos) /\ UNCHANGED <<last_timestamp, records, fields>>
           ELSE
               LET t == data_timestamp(m.fields, last_timestamp)
               IN  /\ fields' = t.fields
                   /\ last_timestamp' = t.last
                   /\ records' = forward(records, t.fields, get_global(defs, local_msg))
                   /\ pos' = m.pos
                   /\ UNCHANGED <<pc, err, exit_status>>
    /\ UNCHANGED <<data, end, defs, output>>
    /\ UNCHANGED main_vars

(* while self.pos < end: ... return records                                *)
Return ==
    /\ pc = "loop"
    /\ ~(pos < end)
    /\ pc' = "returned"
    /\ UNCHANGED <<data, pos, end, defs, last_timestamp, records, fields, err, output, log>>
    /\ UNCHANGED <<exit_status, argv, stdout, opened, active, passes>>
    /\ UNCHANGED service_vars

-----------------------------------------------------------------------------
(* The main block: the argument check, then open and read the input,       *)
(* parser = FitParser(data), records = parser.parse(),                     *)
(* records_to_gpx(records, ...).                                           *)

Usage == "Usage: fit2gpx.py input.fit output.gpx"

main_args_at_least == argv >= 3

(* len(sys.argv) != 3 is false: the script name and two arguments.         *)
main_args_ok == argv = 3

(* if len(sys.argv) != 3: print(usage); sys.exit(1)                        *)
(* with open(sys.argv[1], 'rb') as f: data = f.read()                      *)
Main ==
    /\ pc = "main"
    /\ IF ~main_args_ok
       THEN /\ stdout' = Append(stdout, Usage)
            /\ exit_status' = IntV(1)
            /\ pc' = "exited"
            /\ UNCHANGED opened
       ELSE /\ opened' = TRUE
            /\ pc' = "start"
            /\ UNCHANGED <<stdout, exit_status>>
    /\ UNCHANGED <<argv, data, pos, end, defs, last_timestamp, records, fields, err, output, log>>
    /\ UNCHANGED <<active, passes>>
    /\ UNCHANGED service_vars

render_after_failure == pc \in {"returned", "raised"}

(* records_to_gpx is the statement after parser.parse(): it runs once      *)
(* parse() has returned.                                                   *)
render_enabled == pc = "returned"

RecordsToGpx ==
    /\ render_enabled
    /\ LET g == records_to_gpx(records, 1, <<>>)
       IN  IF g.err # "none"
           THEN /\ pc' = "raised"
                /\ err' = g.err
                /\ exit_status' = IntV(1)
                /\ UNCHANGED output
           ELSE /\ pc' = "written"
                /\ output' = g.val
                /\ exit_status' = IntV(0)
                /\ UNCHANGED err
    /\ UNCHANGED <<data, pos, end, defs, last_timestamp, records, fields, log>>
    /\ UNCHANGED main_vars

Next ==
    \/ Main
    \/ ParseHeader
    \/ ReadHeaderPastData
    \/ CompressedMessage
    \/ DefinitionMessage
    \/ DataMessage
    \/ Return
    \/ RecordsToGpx

-----------------------------------------------------------------------------
(* The input files the runs are drawn from.                                *)

MaxMsgs == 3          \* messages in a well-framed stream
MaxFrameMsgs == 2     \* messages in a stream whose framing is varied
MaxShort == 1         \* bytes by which the header's data_size understates the body
MaxTrail == 2         \* bytes after the body (a file checksum has two)
MaxT == 100           \* largest timestamp of the compressed-timestamp sweep
MaxSize == 8          \* largest declared size of the single field of a field file
MaxPoints == 2        \* definition-and-data pairs in a file of track points
MaxArgc == 4          \* largest len(sys.argv): the script name and three arguments

LE32(n) == <<n % 256, (n \div 256) % 256, (n \div 65536) % 256, n \div 16777216>>

(* A 12-byte file header: header size, protocol, profile, data size, ".FIT" *)
FileHeader(data_size) == <<12, 16, 0, 0>> \o LE32(data_size) \o <<46, 70, 73, 84>>

RECURSIVE Flatten(_)
Flatten(ss) == IF Len(ss) = 0 THEN <<>> ELSE Head(ss) \o Flatten(Tail(ss))

DefMsg(slot, arch, global, fs) ==
    <<64 + slot, 0, arch>>
        \o (IF arch = 0 THEN <<global % 256, global \div 256>>
                        ELSE <<global \div 256, global % 256>>)
        \o <<Len(fs)>> \o Flatten(fs)
DataMsg(slot, body) == <<slot>> \o body
CompMsg(slot, offset, body) == <<128 + 32 * slot + offset>> \o body

Ts8 == <<253, 1, 2>>          \* timestamp, one byte, uint8
Lat8 == <<0, 1, 2>>           \* position_lat, one byte, uint8
Lon8 == <<1, 1, 2>>           \* position_long, one byte, uint8
Lat16 == <<0, 2, 132>>        \* position_lat, two bytes, uint16
Ts8x2 == <<253, 2, 2>>        \* timestamp, two bytes, an array of two uint8

DefTs == DefMsg(0, 0, 20, <<Ts8>>)
DefPoint == DefMsg(0, 0, 20, <<Lat8, Lon8>>)

Msgs ==
    { DefTs,
      DefPoint,
      DefMsg(0, 1, 20, <<Lat16>>),
      DefMsg(0, 0, 20, <<Ts8x2>>),
      DefMsg(1, 0, 21, <<Ts8>>),
      DefMsg(1, 0, 20, <<>>),
      DataMsg(0, <<7>>),
      DataMsg(0, <<1, 2>>),
      DataMsg(1, <<9>>),
      DataMsg(1, <<>>),
      CompMsg(0, 2, <<7>>),
      CompMsg(0, 0, <<1, 2>>),
      CompMsg(1, 4, <<9>>) }

FrameMsgs ==
    { DefTs, DefPoint, DataMsg(0, <<7>>), DataMsg(0, <<1, 2>>), CompMsg(0, 2, <<7>>) }

(* The concatenations of at most n messages of M.                          *)
RECURSIVE Streams(_, _)
Streams(M, n) ==
    IF n = 0 THEN {<<>>}
    ELSE LET S == Streams(M, n - 1) IN S \cup {s \o m : s \in S, m \in M}

Trailer(k) == [i \in 1..k |-> 16 * i + 5]

Prefixes(f, from) == {SubSeq(f, 1, n) : n \in from..Len(f)}

(* Well-framed files: the header states the length of the body.            *)
GeneralInputs == {FileHeader(Len(b)) \o b : b \in Streams(Msgs, MaxMsgs)}

(* Files cut short, with trailing bytes, or whose header understates the   *)
(* body.                                                                   *)
FramingInputs ==
    UNION { Prefixes(FileHeader(Len(b) - short) \o b \o Trailer(trail), 12) :
                b \in {x \in Streams(FrameMsgs, MaxFrameMsgs) : Len(x) >= MaxShort},
                short \in 0..MaxShort,
                trail \in 0..MaxTrail }

(* A timestamp T (or none), then two compressed-timestamp messages whose   *)
(* body carries a field 253 of its own.                                    *)
TimestampInputs ==
    { FileHeader(Len(b)) \o b :
        b \in { DefTs \o first \o CompMsg(0, o, <<200>>) \o CompMsg(0, <<0, o, 31>>[k], <<201>>) :
                    first \in {<<>>} \cup {DataMsg(0, <<T>>) : T \in 0..MaxT},
                    o \in 0..31,
                    k \in 1..3 } }

(* Files shorter than a file header.                                       *)
HeaderInputs == Prefixes(FileHeader(0), 0)

(* The bodies of a single field: text with NUL padding, a count, zeros,    *)
(* and bytes above 127 at the first and the second place of every four.    *)
Pattern(k, n) ==
    [i \in 1..n |->
        CASE k = 1 -> IF i <= 3 THEN 96 + i ELSE 0
          [] k = 2 -> i
          [] k = 3 -> 0
          [] k = 4 -> IF i % 4 = 2 THEN 200 ELSE 97
          [] OTHER -> IF i % 4 = 1 THEN 200 ELSE 97]

(* Base-type codes: every width and sign, text under three codes with the  *)
(* same low five bits, and kinds outside the table.                        *)
BaseTypes == {0, 1, 2, 131, 132, 133, 134, 7, 39, 135, 136, 137, 17, 49, 159}

(* The integers of the model are 32 bits wide: no 8-byte integers, and no  *)
(* unsigned 4-byte integer whose big-endian first byte is above 127.       *)
Representable(bt, k) ==
    /\ bt % 32 \notin {14, 15, 16}
    /\ ~(k = 5 /\ bt % 32 \in {6, 12})

(* One definition of one field (id 5, which records_to_gpx does not look   *)
(* at, a size and a base type) and one data message.                       *)
FieldFile(arch, size, bt, body) ==
    LET b == DefMsg(0, arch, 20, <<(<<5, size, bt>>)>>) \o DataMsg(0, body)
    IN FileHeader(Len(b)) \o b

FieldCases == {c \in BaseTypes \X (1..5) : Representable(c[1], c[2])}

FieldInputs ==
    { FieldFile(arch, size, c[1], Pattern(c[2], size)) :
        arch \in {0, 1, 2},
        size \in 0..MaxSize,
        c \in FieldCases }

Lat8x2 == <<0, 2, 2>>         \* position_lat, two bytes, an array of two uint8
Alt16 == <<2, 2, 132>>        \* altitude, two bytes, uint16
Lat32 == <<0, 4, 133>>        \* position_lat, sint32
Lon32 == <<1, 4, 133>>        \* position_long, sint32
Ts32 == <<253, 4, 134>>       \* timestamp, uint32

(* One definition (slot 0, global 20, fields 0 and 1 sint32, 253 uint32)   *)
(* and one data message whose three values are 0.                          *)
EndToEndBody ==
    DefMsg(0, 0, 20, <<Lat32, Lon32, Ts32>>) \o DataMsg(0, [i \in 1..12 |-> 0])
EndToEndFile == FileHeader(Len(EndToEndBody)) \o EndToEndBody

(* A definition for slot 0 and one message that uses it.                   *)
Points ==
    { DefPoint \o DataMsg(0, <<1, 2>>),
      DefMsg(0, 0, 20, <<Lat8>>) \o DataMsg(0, <<3>>),
      DefMsg(0, 0, 20, <<Lon8>>) \o DataMsg(0, <<4>>),
      DefMsg(0, 0, 20, <<>>) \o DataMsg(0, <<>>),
      DefMsg(0, 0, 20, <<Lat8, Lon8, Alt16>>) \o DataMsg(0, <<5, 6, 196, 9>>),
      DefMsg(0, 0, 20, <<Lat8, Lon8, Alt16>>) \o DataMsg(0, <<7, 8, 0, 0>>),
      DefMsg(0, 0, 20, <<Lat8, Lon8, Ts8>>) \o DataMsg(0, <<9, 10, 50>>),
      DefMsg(0, 0, 20, <<Lat8x2, Lon8>>) \o DataMsg(0, <<11, 12, 13>>),
      DefMsg(0, 0, 21, <<Ts8>>) \o DataMsg(0, <<60>>),
      DefPoint \o CompMsg(0, 5, <<14, 15>>),
      EndToEndBody }

(* Files of track points, among them records that lack a coordinate.       *)
PointInputs == {FileHeader(Len(b)) \o b : b \in Streams(Points, MaxPoints)}

(* The end-to-end file cut short at every length: the header still states  *)
(* the whole body.                                                         *)
TruncatedInputs == Prefixes(EndToEndFile, 0)

(* Files whose header understates the body by one byte, with two bytes     *)
(* after the body.                                                         *)
UnderstatedInputs == {FileHeader(Len(b) - 1) \o b \o Trailer(2) : b \in Points}

(* The files of the runs whose end is checked: one or two points, whole,   *)
(* cut short at every length, or with a header that understates the body.  *)
FairInputs ==
    HeaderInputs \cup TruncatedInputs \cup UnderstatedInputs
        \cup {FileHeader(Len(b)) \o b : b \in Points \cup {x \o y : x, y \in Points}}

(* Normal headers with every value of bits 4 and 5, for a low, a middle    *)
(* and the highest slot; compressed-timestamp headers for every slot they  *)
(* can address, with the lowest, a middle and the highest offset.          *)
HeaderBitInputs ==
    { FileHeader(Len(b)) \o b :
        b \in { DefMsg(slot + 16 * hi[1], 0, 20, <<Ts8>>) \o DataMsg(slot + 16 * hi[2], <<7>>) :
                    slot \in {0, 9, 15}, hi \in (0..3) \X (0..3) }
            \cup { DefMsg(slot, 0, 20, <<Lat8>>) \o CompMsg(slot, o, <<7>>) :
                    slot \in 0..3, o \in {0, 17, 31} } }

Inputs ==
    GeneralInputs \cup FramingInputs \cup TimestampInputs \cup HeaderInputs
        \cup FieldInputs \cup PointInputs \cup FairInputs \cup HeaderBitInputs

(* The runs with a wrong number of arguments, on a few of the files.       *)
UsageInputs == HeaderInputs \cup {EndToEndFile}

(* The web service is not running: nothing is cached, nothing was         *)
(* requested, no job was queued and the output directory is empty.         *)
ServiceDown ==
    /\ redis = EmptyDict
    /\ expired = {}
    /\ amenities = {}
    /\ requests = <<>>
    /\ jobs = EmptyDict
    /\ files = EmptyDict

(* The script is started with argv on an existing input file; FitParser's  *)
(* fields are as its constructor sets them.                                *)
Init ==
    /\ ServiceDown
    /\ argv \in 1..MaxArgc
    /\ data \in IF argv = 3 THEN Inputs ELSE UsageInputs
    /\ stdout = <<>>
    /\ opened = FALSE
    /\ exit_status = None
    /\ active = 1
    /\ passes = EmptyDict
    /\ pc = "main"
    /\ pos = 0
    /\ end = 0
    /\ defs = EmptyDict
    /\ last_timestamp = None
    /\ records = <<>>
    /\ fields = EmptyDict
    /\ err = "none"
    /\ output = None
    /\ log = <<>>

Spec == Init /\ [][Next]_vars

-----------------------------------------------------------------------------
(* Several FitParser instances in one process, their parse() calls         *)
(* interleaved message by message.                                         *)

(* FitParser(d): the attributes __init__ sets, each a fresh object, and    *)
(* the locals of a parse() call that has not started.                      *)
FitParser_init(d) ==
    [data |-> d, pc |-> "start", pos |-> 0, end |-> 0, defs |-> EmptyDict,
     last_timestamp |-> None, records |-> <<>>, fields |-> EmptyDict,
     err |-> "none", log |-> <<>>]

(* The instance the variables belong to, as one record.                    *)
Current ==
    [data |-> data, pc |-> pc, pos |-> pos, end |-> end, defs |-> defs,
     last_timestamp |-> last_timestamp, records |-> records, fields |-> fields,
     err |-> err, log |-> log]

Instances == {active} \cup DOMAIN passes
Inst(i) == IF i = active THEN Current ELSE passes[i]
Done(i) == Inst(i).pc \in {"returned", "raised"}

(* The interpreter goes on with the parse() call of instance j: nothing is *)
(* shared, every attribute and local is the instance's own.                *)
Resume(j, shared_defs) ==
    /\ j \in DOMAIN passes
    /\ pc \in {"start", "loop", "returned", "raised"}
    /\ passes[j].pc \in {"start", "loop"}
    /\ active' = j
    /\ passes' = [i \in (DOMAIN passes \ {j}) \cup {active} |->
                     IF i = active THEN Current ELSE passes[i]]
    /\ data' = passes[j].data
    /\ pc' = passes[j].pc
    /\ pos' = passes[j].pos
    /\ end' = passes[j].end
    /\ defs' = (IF shared_defs THEN defs ELSE passes[j].defs)
    /\ last_timestamp' = passes[j].last_timestamp
    /\ records' = passes[j].records
    /\ fields' = passes[j].fields
    /\ err' = passes[j].err
    /\ log' = passes[j].log
    /\ UNCHANGED <<argv, stdout, opened, exit_status, output>>
    /\ UNCHANGED service_vars

Switch_shared_defs == \E j \in DOMAIN passes : Resume(j, TRUE)

(* self.defs = {} in __init__: the table is an attribute of the instance.  *)
Switch == \E j \in DOMAIN passes : Resume(j, FALSE)

(* The buffers of the interleaved passes: two points, a timestamp and a    *)
(* compressed-timestamp message, the end-to-end file, and a file cut off   *)
(* after its definition.                                                   *)
PassBodies ==
    { DefPoint \o DataMsg(0, <<1, 2>>),
      DefTs \o DataMsg(0, <<7>>) \o CompMsg(0, 2, <<7>>),
      EndToEndBody }
PassInputs ==
    {FileHeader(Len(b)) \o b : b \in PassBodies} \cup {FileHeader(Len(DefTs) + 2) \o DefTs}

(* Instances 1 and 2 are given the same buffer, instance 3 any buffer.     *)
PassInit ==
    /\ ServiceDown
    /\ argv = 3
    /\ stdout = <<>>
    /\ opened = TRUE
    /\ exit_status = None
    /\ output = None
    /\ active = 1
    /\ \E a, b \in PassInputs :
         /\ data = a
         /\ passes = (2 :> FitParser_init(a)) @@ (3 :> FitParser_init(b))
    /\ pc = "start"
    /\ pos = 0
    /\ end = 0
    /\ defs = EmptyDict
    /\ last_timestamp = None
    /\ records = <<>>
    /\ fields = EmptyDict
    /\ err = "none"
    /\ log = <<>>

PassNext ==
    \/ Switch
    \/ ParseHeader
    \/ ReadHeaderPastData
    \/ CompressedMessage
    \/ DefinitionMessage
    \/ DataMessage
    \/ Return

PassSpec == PassInit /\ [][PassNext]_vars

(* The script is given its two arguments.                                  *)
FairInit == Init /\ argv = 3 /\ data \in FairInputs

(* The interpreter goes on executing the script until it ends.             *)
FairSpec == FairInit /\ [][Next]_vars /\ WF_vars(Next)

-----------------------------------------------------------------------------
(* What the history says, read from the bytes of the file alone.           *)

LogHeader(i) == data[log[i] + 1]
LogSlot(i) ==
    IF IsCompressed(LogHeader(i)) THEN CompressedSlot(LogHeader(i))
    ELSE NormalSlot(LogHeader(i))

(* The index in log of the latest definition message for slot s among the  *)
(* first n messages, 0 if there is none.                                   *)
LatestDefinition(s, n) ==
    LET D == {i \in 1..n : IsDefinition(LogHeader(i)) /\ NormalSlot(LogHeader(i)) = s}
    IN IF D = {} THEN 0 ELSE CHOOSE i \in D : \A j \in D : j <= i

(* The definition message whose header byte is the i-th of log.            *)
DefinitionAt(i) == parse_definition(log[i] + 1).def

(* The slot addressed by the header byte under the cursor.                 *)
HeaderSlot ==
    IF IsCompressed(HeaderByte) THEN CompressedSlot(HeaderByte)
    ELSE NormalSlot(HeaderByte)

AtMessage == pc = "loop" /\ pos < end /\ HeaderAvailable

FieldIds(d) == {d.fields[i][1] : i \in 1..Len(d.fields)}

RECURSIVE SumSizes(_)
SumSizes(fs) == IF Len(fs) = 0 THEN 0 ELSE Head(fs)[2] + SumSizes(Tail(fs))

-----------------------------------------------------------------------------
(* C1 (as stated): a data or compressed-timestamp message whose slot has   *)
(* had no definition message earlier in the stream makes the pass abort    *)
(* with the missing-definition error (ValueError), without decoding the    *)
(* message and without returning a record list.                            *)
C1_UndefinedSlotStep ==
    (/\ AtMessage
     /\ ~IsDefinition(HeaderByte)
     /\ LatestDefinition(HeaderSlot, Len(log)) = 0)
    => (/\ pc' = "raised"
        /\ err' = "ValueError"
        /\ records' = records
        /\ fields' = fields
        /\ pos' = pos + 1)

C1_AmendedStep ==
    (/\ AtMessage
     /\ ~IsDefinition(HeaderByte)
     /\ LatestDefinition(HeaderSlot, Len(log)) = 0)
    => (/\ pc' = "raised"
        /\ records' = records
        /\ fields' = fields
        /\ pos' = pos + 1
        /\ output' = None
        /\ err' = IF IsCompressed(HeaderByte) /\ last_timestamp.kind \notin {"None", "int"}
                  THEN "TypeError" ELSE "ValueError")

-----------------------------------------------------------------------------
(* C2: the definition table holds, for each slot, exactly the definition   *)
(* given by the latest definition message for that slot (one per slot),    *)
(* and a data or compressed-timestamp message is decoded (field list,      *)
(* byte order, global number) with that definition, never an older one.    *)
C2_TableIsLatest ==
    \A s \in 0..15 :
        LET j == LatestDefinition(s, Len(log))
        IN  /\ (s \in DOMAIN defs) <=> (j > 0)
            /\ j > 0 => defs[s] = DefinitionAt(j)

C2_DecodedWithLatest ==
    (Len(log) > 0 /\ ~IsDefinition(LogHeader(Len(log)))) =>
        LET n == Len(log)
            j == LatestDefinition(LogSlot(n), n)
            d == DefinitionAt(j)
            m == data_fields(d.fields, 1, log[n] + 1, d.endian, EmptyDict)
        IN  /\ j > 0
            /\ m.err = "none"
            /\ pos = m.pos
            /\ DOMAIN fields \ {253} = DOMAIN m.fields \ {253}
            /\ \A k \in DOMAIN m.fields \ {253} : fields[k] = m.fields[k]
            /\ get_global(defs, LogSlot(n)) = IntV(d.global)

(* C2, as stated above, in every state and at every step of a run.         *)
C2_LatestDefinitionUsed == pc \in {"loop", "returned"} => C2_TableIsLatest /\ C2_DecodedWithLatest

(* A message decoded for a slot that has been redefined with a different   *)
(* byte order and field list, which the older definition would have        *)
(* decoded differently.                                                    *)
C2_Witness ==
    /\ pc = "loop"
    /\ Len(log) > 2
    /\ IsData(LogHeader(Len(log)))
    /\ \E i \in 1..Len(log) :
        LET n == Len(log)
            j == LatestDefinition(LogSlot(n), n)
        IN  /\ i < j
            /\ IsDefinition(LogHeader(i))
            /\ NormalSlot(LogHeader(i)) = LogSlot(n)
            /\ DefinitionAt(i).endian # DefinitionAt(j).endian
            /\ LET old == data_fields(DefinitionAt(i).fields, 1, log[n] + 1,
                                      DefinitionAt(i).endian, EmptyDict)
               IN old.err = "none" /\ old.fields # fields

-----------------------------------------------------------------------------
(* C3: for a compressed-timestamp message with offset o met while the      *)
(* last-known timestamp is a non-negative integer T, the reconstructed     *)
(* timestamp is the smallest integer congruent to o modulo 32 that is      *)
(* strictly greater than T (so T < ts <= T + 32); consecutive compressed   *)
(* messages therefore yield strictly increasing timestamps.                *)
C3_Step ==
    (/\ AtMessage
     /\ IsCompressed(HeaderByte)
     /\ last_timestamp.kind = "int"
     /\ last_timestamp.v >= 0)
    => LET T == last_timestamp.v
           o == CompressedOffset(HeaderByte)
           ts == last_timestamp'.v
       IN  /\ last_timestamp'.kind = "int"
           /\ ts % 32 = o
           /\ T < ts
           /\ ts <= T + 32
           /\ \A x \in (T + 1)..(ts - 1) : x % 32 # o

(* C3, as stated above, in every state and at every step of a run.         *)
C3_SmallestCongruentAbove == [][C3_Step]_vars

(* T = 100 and o = 2 have given 130.                                       *)
C3_Witness ==
    /\ pc = "loop"
    /\ Len(log) = 3
    /\ IsData(LogHeader(2))
    /\ read(log[2] + 1, 1) = <<100>>
    /\ IsCompressed(LogHeader(3))
    /\ CompressedOffset(LogHeader(3)) = 2
    /\ last_timestamp = IntV(130)

-----------------------------------------------------------------------------
(* C4: after a compressed-timestamp message is decoded, the last-known     *)
(* timestamp is the reconstructed timestamp and field 253 of the decoded   *)
(* record is that same value, whatever the body holds for field 253.       *)
C4_Step ==
    (AtMessage /\ IsCompressed(HeaderByte) /\ pc' = "loop")
    => LET T == IF last_timestamp = None THEN 0 ELSE last_timestamp.v
           o == CompressedOffset(HeaderByte)
           ts == last_timestamp'.v
       IN  /\ last_timestamp'.kind = "int"
           /\ ts % 32 = o
           /\ T < ts
           /\ ts <= T + 32
           /\ 253 \in DOMAIN fields'
           /\ fields'[253] = last_timestamp'

(* C4, as stated above, in every state and at every step of a run.         *)
C4_CompressedTimestampOverrides == [][C4_Step]_vars

(* A compressed-timestamp message has been decoded whose body holds a      *)
(* field 253 with another value than the reconstructed timestamp.          *)
C4_Witness ==
    /\ pc = "loop"
    /\ Len(log) > 0
    /\ IsCompressed(LogHeader(Len(log)))
    /\ LET m == parse_data_message(defs, LogSlot(Len(log)), log[Len(log)] + 1)
       IN  /\ m.err = "none"
           /\ 253 \in DOMAIN m.fields
           /\ m.fields[253] # fields[253]
           /\ fields[253] = last_timestamp

-----------------------------------------------------------------------------
(* C5: for a normal data message, if the decoded fields contain 253 the    *)
(* last-known timestamp becomes that value; otherwise, if a last-known     *)
(* timestamp exists, the record gets it as field 253 and it is unchanged;  *)
(* if none exists the record has no field 253 and it stays unset.          *)
C5_Step ==
    (AtMessage /\ IsData(HeaderByte) /\ pc' = "loop")
    => LET m == parse_data_message(defs, NormalSlot(HeaderByte), pos + 1)
       IN  IF 253 \in DOMAIN m.fields
           THEN /\ last_timestamp' = m.fields[253]
                /\ fields' = m.fields
           ELSE IF last_timestamp # None
           THEN /\ 253 \in DOMAIN fields'
                /\ fields'[253] = last_timestamp
                /\ \A k \in DOMAIN m.fields : fields'[k] = m.fields[k]
                /\ last_timestamp' = last_timestamp
           ELSE /\ 253 \notin DOMAIN fields'
                /\ fields' = m.fields
                /\ last_timestamp' = None

(* C5, as stated above, in every state and at every step of a run.         *)
C5_DataTimestampRule == [][C5_Step]_vars

(* A data message without field 253 has inherited the last-known timestamp. *)
C5_Witness ==
    /\ pc = "loop"
    /\ Len(log) > 0
    /\ IsData(LogHeader(Len(log)))
    /\ 253 \notin FieldIds(defs[LogSlot(Len(log))])
    /\ 253 \in DOMAIN fields
    /\ fields[253] = last_timestamp
    /\ Len(records) > 0
    /\ records[Len(records)] = fields

-----------------------------------------------------------------------------
(* C6 (as stated): every record returned by FitParser.parse contains field *)
(* 253, for every stream that parses without error.                        *)
C6_EveryRecordHasTimestamp ==
    pc \in {"returned", "written"} => \A i \in 1..Len(records) : 253 \in DOMAIN records[i]

(* C6 (amended): a record appended to the list contains field 253 unless   *)
(* it comes from a normal data message whose definition has no field 253   *)
(* and that is decoded while no last-known timestamp exists; such a record *)
(* has no field 253.  Records never change once appended, so this holds of *)
(* the list returned.                                                      *)
C6_Step ==
    /\ records' # records =>
        /\ AtMessage
        /\ ~IsDefinition(HeaderByte)
        /\ Len(records') = Len(records) + 1
        /\ SubSeq(records', 1, Len(records)) = records
        /\ (253 \notin DOMAIN records'[Len(records')])
            <=> (/\ IsData(HeaderByte)
                 /\ last_timestamp = None
                 /\ 253 \notin FieldIds(defs[NormalSlot(HeaderByte)]))

(* C6, as stated above, in every state and at every step of a run.         *)
C6_TimestampUnlessNoneKnown == [][C6_Step]_vars

(* A pass has returned a record without field 253 and one with it.         *)
C6_Witness ==
    /\ pc = "returned"
    /\ Len(records) > 1
    /\ 253 \notin DOMAIN records[1]
    /\ 253 \in DOMAIN records[Len(records)]

-----------------------------------------------------------------------------
(* C7: a decoded message is appended to the record list if and only if the *)
(* global number of its slot's current definition is 20; a message of any  *)
(* other global number is still decoded in full, the cursor moving past    *)
(* all its fields; a stream whose definitions all have a global number     *)
(* other than 20 returns zero records.                                     *)
C7_Step ==
    (AtMessage /\ ~IsDefinition(HeaderByte) /\ pc' = "loop")
    => LET d == defs[HeaderSlot]
       IN  /\ pos' = pos + 1 + SumSizes(d.fields)
           /\ DOMAIN fields' \ {253} = FieldIds(d) \ {253}
           /\ records' = IF d.global = 20 THEN Append(records, fields') ELSE records
C7_NoRecordDefinition ==
    \A i \in 1..Len(log) : IsDefinition(LogHeader(i)) => DefinitionAt(i).global # 20

(* C7, as stated above, in every state and at every step of a run.         *)
C7_OnlyGlobal20Forwarded ==
    /\ [][C7_Step]_vars
    /\ [](pc \in {"returned", "written"} /\ C7_NoRecordDefinition => records = <<>>)

(* A stream of a definition with global number 21 and data messages for it *)
(* has been decoded in full and has returned no record.                    *)
C7_Witness ==
    /\ pc = "returned"
    /\ records = <<>>
    /\ C7_NoRecordDefinition
    /\ \E i \in 1..Len(log) : IsData(LogHeader(i))
    /\ DOMAIN fields = {253}
    /\ pos = end

-----------------------------------------------------------------------------
(* C8: a read that needs more bytes than remain in the data fails and      *)
(* aborts the pass: once a message has moved the cursor past the end of    *)
(* the data (a read returned fewer bytes than asked), the pass has raised; *)
(* it neither goes on nor completes normally.                              *)
C8_ShortReadAborts == (Len(log) > 0 /\ pos > Len(data)) => pc = "raised"

-----------------------------------------------------------------------------
(* C9: a pass ends normally only with the cursor exactly at header length  *)
(* + body length; a message running past that boundary makes it fail.      *)
C9_NormalEndAtBoundary == pc \in {"returned", "written"} => pos = end

-----------------------------------------------------------------------------
(* C10: output is written only after the whole pass has completed without  *)
(* error: in a run in which parse raises, records_to_gpx is never called   *)
(* and nothing is written.                                                 *)
C10_NoOutputAfterError ==
    /\ pc = "raised" => output = None
    /\ output # None => pc = "written" /\ err = "none"
    /\ pc = "written" => pos >= end /\ output # None

(* A pass that raised in the middle of the stream, after a record had been *)
(* decoded, and left nothing written.                                      *)
C10_Witness ==
    /\ pc = "raised"
    /\ err \in {"ValueError", "IndexError", "struct.error"}
    /\ Len(records) > 0
    /\ output = None

-----------------------------------------------------------------------------
(* What records_to_gpx is given, read from the record list alone.          *)

Complete(r) == 0 \in DOMAIN r /\ 1 \in DOMAIN r

(* The indices of the records that have both field 0 and field 1, in       *)
(* increasing order.                                                       *)
CompleteIndices(recs) ==
    SelectSeq([i \in 1..Len(recs) |-> i], LAMBDA i : Complete(recs[i]))

(* C11: records_to_gpx emits one track point for each forwarded record     *)
(* that has both field 0 and field 1 and none for a record lacking either, *)
(* without an error, and the points are in the order of their records.     *)
C11_Step ==
    (pc = "returned" /\ pc' # "returned") =>
        /\ pc' = "written"
        /\ LET idx == CompleteIndices(records)
           IN  /\ Len(output'.v) = Len(idx)
               /\ \A j \in 1..Len(idx) :
                    /\ output'.v[j].lat = format_degrees(records[idx[j]][0])
                    /\ output'.v[j].lon = format_degrees(records[idx[j]][1])

(* C11 as the design states it, at every step of a run.                    *)
C11_OnePointPerCompleteRecord == [][C11_Step]_vars

-----------------------------------------------------------------------------
(* A data message of a single field, read from the bytes of the file: the  *)
(* log holds a definition of one field for slot 0 and then a data message  *)
(* for it, and the cursor is just after the field.                         *)

SingleField ==
    /\ Len(log) = 2
    /\ IsDefinition(LogHeader(1))
    /\ IsData(LogHeader(2))
    /\ LogSlot(1) = 0
    /\ LogSlot(2) = 0
    /\ 0 \in DOMAIN defs
    /\ Len(defs[0].fields) = 1
    /\ pos = log[2] + 1 + defs[0].fields[1][2]

FieldSize == defs[0].fields[1][2]
FieldBaseType == defs[0].fields[1][3]
FieldNumber == defs[0].fields[1][1]

(* The bytes of the field in the file, all of them present.                *)
FieldRaw == SubSeq(data, log[2] + 2, log[2] + 1 + FieldSize)
FieldWhole == log[2] + 1 + FieldSize <= Len(data)

RECURSIVE RStripNul(_)
RStripNul(bs) ==
    IF Len(bs) > 0 /\ bs[Len(bs)] = 0 THEN RStripNul(SubSeq(bs, 1, Len(bs) - 1)) ELSE bs

IsAscii(bs) == \A i \in 1..Len(bs) : bs[i] < 128

(* C12: a text field (kind 7) of n >= 1 bytes decodes to the whole n-byte  *)
(* slice read as UTF-8 with the trailing NUL bytes removed.                *)
C12_TextDecodesWholeSlice ==
    (/\ SingleField
     /\ FieldBaseType % 32 = 7
     /\ FieldSize >= 1
     /\ FieldWhole
     /\ IsAscii(FieldRaw))
        => /\ err = "none"
           /\ FieldNumber \in DOMAIN fields
           /\ fields[FieldNumber] = StrV(RStripNul(FieldRaw))

-----------------------------------------------------------------------------
(* A numeric field: a kind of the table other than text.                   *)
FieldKind == FieldBaseType % 32
NumericField == SingleField /\ FieldWhole /\ FieldKind \in (DOMAIN base_formats) \ {7}
FieldWidth == calcsize(base_formats[FieldKind])
IsScalar(x) == x.kind \in {"int", "float"}
Decoded == fields[FieldNumber]

(* The array decoded from the field has one scalar per w bytes, each the   *)
(* value its own w bytes have as a field of size w.                        *)
IsArrayOf(x, n) ==
    /\ x.kind = "tuple"
    /\ Len(x.v) = n
    /\ \A i \in 1..n :
         /\ IsScalar(x.v[i])
         /\ Ok(x.v[i]) = parse_value(SubSeq(FieldRaw, (i - 1) * FieldWidth + 1, i * FieldWidth),
                                     FieldBaseType, defs[0].endian)

-----------------------------------------------------------------------------
(* What the data message of a single field came to: the exception or the   *)
(* value of the field.                                                     *)
FieldOutcome == IF err = "none" THEN Ok(Decoded) ELSE Raise(err)

(* C14: the base-type code is masked to its low 5 bits before dispatch, so *)
(* two codes with the same low 5 bits decode a slice identically; a code   *)
(* whose masked kind is not one of 0..16 decodes to the raw slice          *)
(* unchanged and never raises.                                             *)
C14_DispatchOnMaskedKind ==
    (SingleField /\ FieldWhole) =>
        /\ \A bt \in BaseTypes :
             bt % 32 = FieldKind =>
                parse_value(FieldRaw, bt, defs[0].endian) = FieldOutcome
        /\ FieldKind \notin 0..16 => FieldOutcome = Ok(BytesV(FieldRaw))

-----------------------------------------------------------------------------
(* A coordinate of 0 degrees and a point at the format epoch.              *)
ZeroDegrees == [neg |-> FALSE, e6 |-> 0]
Epoch1989 ==
    [kind |-> "datetime",
     v |-> [epoch |-> [year |-> 1989, month |-> 12, day |-> 31,
                       hour |-> 0, minute |-> 0, second |-> 0],
            days |-> 0, seconds |-> 0]]
PointAtOriginAtEpoch ==
    [lat |-> ZeroDegrees, lon |-> ZeroDegrees, ele |-> None, time |-> Epoch1989]

(* C15: the stream of one definition (slot 0, global 20, fields 0 and 1    *)
(* int32, 253 uint32) and one data message with the three values 0 decodes *)
(* to exactly one track point with latitude 0, longitude 0 and timestamp 0 *)
(* seconds after the format epoch; the run raises nothing.                 *)
C15_EndToEnd ==
    data = EndToEndFile =>
        /\ pc # "raised"
        /\ pc \in {"returned", "written"} =>
              records = <<(0 :> IntV(0)) @@ (1 :> IntV(0)) @@ (253 :> IntV(0))>>
        /\ pc = "written" => output = TupleV(<<PointAtOriginAtEpoch>>)

C15_Witness ==
    /\ data = EndToEndFile
    /\ pc = "written"
    /\ Len(output.v) = 1
    /\ output.v[1].time = Epoch1989

-----------------------------------------------------------------------------
(* The decode has been started: the script has gone past the argument      *)
(* check.                                                                  *)
DecodeStarted == pc \notin {"main", "exited"}

(* C16: the decode runs only when the script is given exactly two          *)
(* arguments (len(sys.argv) = 3); with any other count it prints the usage *)
(* message and exits with status 1, without opening the input or writing   *)
(* any output.                                                             *)
C16_UsageUnlessTwoArguments ==
    /\ DecodeStarted => argv = 3 /\ opened /\ stdout = <<>>
    /\ argv # 3 =>
          /\ pc \in {"main", "exited"}
          /\ ~opened
          /\ output = None
          /\ pos = 0 /\ records = <<>> /\ log = <<>>
    /\ pc = "exited" =>
          /\ argv # 3
          /\ stdout = <<Usage>>
          /\ exit_status = IntV(1)
    /\ pc = "main" => stdout = <<>> /\ exit_status = None /\ ~opened

(* The script given three arguments has printed the usage and exited.      *)
C16_Witness ==
    /\ argv = 4
    /\ pc = "exited"
    /\ stdout = <<Usage>>
    /\ exit_status = IntV(1)
    /\ ~opened
    /\ output = None

-----------------------------------------------------------------------------
(* C17: each rendered track point carries latitude and longitude, carries  *)
(* an elevation exactly when its record has field 2 and a timestamp        *)
(* exactly when its record has field 253; the elevation is raw / 5 - 500   *)
(* metres (here in hundredths of a metre), so raw 2500 gives 0 and raw 0   *)
(* gives -500.                                                             *)
C17_PointOf(p, r) ==
    /\ p.lat = format_degrees(r[0])
    /\ p.lon = format_degrees(r[1])
    /\ (p.ele.kind # "None") <=> (2 \in DOMAIN r)
    /\ (p.time.kind # "None") <=> (253 \in DOMAIN r)
    /\ (2 \in DOMAIN r /\ r[2].kind = "int") =>
          /\ p.ele.kind = "int"
          /\ 5 * p.ele.v = 100 * r[2].v - 250000
          /\ r[2].v = 2500 => p.ele.v = 0
          /\ r[2].v = 0 => p.ele.v = -50000

(* C17, as stated above, in every state and at every step of a run.        *)
C17_OptionalElevationAndTime ==
    pc = "written" =>
        LET idx == CompleteIndices(records)
        IN  /\ Len(output.v) = Len(idx)
            /\ \A j \in 1..Len(idx) : C17_PointOf(output.v[j], records[idx[j]])

(* A written track with a point at 0 m from raw 2500 that has no time and  *)
(* a point at -500 m from raw 0.                                           *)
C17_Witness ==
    /\ pc = "written"
    /\ Len(output.v) = 2
    /\ \E i, j \in 1..2 :
         /\ output.v[i].ele = IntV(0)
         /\ output.v[i].time.kind = "None"
         /\ output.v[j].ele = IntV(-50000)
    /\ \E k \in 1..Len(records) : 2 \in DOMAIN records[k] /\ records[k][2] = IntV(2500)

-----------------------------------------------------------------------------
(* A definition message was read to its end in this step.                  *)
DefinitionRead ==
    /\ pc = "loop"
    /\ pc' = "loop"
    /\ Len(log') = Len(log) + 1
    /\ IsDefinition(data[pos + 1])

(* C18: a definition message with n triplets consumes exactly 5 + 3n bytes *)
(* after its header byte and stores, under the low 4 bits of the header,   *)
(* the n triplets in stream order, with byte order little-endian when the  *)
(* architecture byte is 0 and big-endian otherwise; the 2-byte global      *)
(* number is read in that byte order.  The other slots are left alone.     *)
C18_Step ==
    DefinitionRead =>
        LET slot == data[pos + 1] % 16
            arch == data[pos + 3]
            n == data[pos + 6]
        IN  /\ pos' = pos + 1 + 5 + 3 * n
            /\ pos' <= Len(data)
            /\ DOMAIN defs' = DOMAIN defs \cup {slot}
            /\ \A s \in DOMAIN defs : s # slot => defs'[s] = defs[s]
            /\ defs'[slot].fields =
                  [k \in 1..n |-> <<data[pos + 4 + 3 * k], data[pos + 5 + 3 * k],
                                    data[pos + 6 + 3 * k]>>]
            /\ defs'[slot].endian = (IF arch = 0 THEN "<" ELSE ">")
            /\ defs'[slot].global =
                  (IF arch = 0 THEN data[pos + 4] + 256 * data[pos + 5]
                               ELSE 256 * data[pos + 4] + data[pos + 5])

(* C18, as stated above, in every state and at every step of a run.        *)
C18_DefinitionLayout == [][C18_Step]_vars

(* A definition with architecture byte 2 and one triplet was stored as     *)
(* big-endian with global number 20, 8 bytes after its header byte.        *)
C18_Witness ==
    /\ Len(log) = 1
    /\ IsDefinition(LogHeader(1))
    /\ pc = "loop"
    /\ log[1] + 9 <= Len(data)
    /\ data[log[1] + 3] = 2
    /\ pos = log[1] + 1 + 5 + 3
    /\ LogSlot(1) \in DOMAIN defs
    /\ defs[LogSlot(1)].endian = ">"
    /\ defs[LogSlot(1)].global = 20
    /\ Len(defs[LogSlot(1)].fields) = 1

-----------------------------------------------------------------------------
(* Four messages, read from the bytes of the file: a definition whose last *)
(* field is a one-byte timestamp (field 253, uint8) under any global       *)
(* number, a data message for it, then a definition of global 20 without   *)
(* field 253 and a data or compressed-timestamp message for that one.      *)
TimestampThenRecord ==
    /\ Len(log) = 4
    /\ pc \in {"loop", "returned", "written"}
    /\ IsDefinition(LogHeader(1)) /\ IsData(LogHeader(2)) /\ LogSlot(2) = LogSlot(1)
    /\ Len(DefinitionAt(1).fields) >= 1
    /\ DefinitionAt(1).fields[Len(DefinitionAt(1).fields)] = <<253, 1, 2>>
    /\ IsDefinition(LogHeader(3))
    /\ DefinitionAt(3).global = 20
    /\ 253 \notin FieldIds(DefinitionAt(3))
    /\ ~IsDefinition(LogHeader(4)) /\ LogSlot(4) = LogSlot(3)

(* The timestamp the second message carries: its last byte.                *)
CarriedTimestamp == data[log[3]]

(* The smallest value above T whose low 5 bits are o.                      *)
NextCongruent(T, o) == CHOOSE x \in (T + 1)..(T + 32) : x % 32 = o

(* C19: the last-known timestamp is parser-wide: the last decoded message  *)
(* of any global number that has field 253 agrees with it, and after a     *)
(* data message of any global number carried field 253, a later record     *)
(* without field 253 has that value as its timestamp and a later           *)
(* compressed-timestamp record the smallest later value with its offset.   *)
C19_ParserWideTimestamp ==
    /\ (pc \in {"loop", "returned", "written"} /\ 253 \in DOMAIN fields)
          => fields[253] = last_timestamp
    /\ TimestampThenRecord =>
          /\ Len(records) >= 1
          /\ 253 \in DOMAIN records[Len(records)]
          /\ records[Len(records)][253] =
                (IF IsData(LogHeader(4)) THEN IntV(CarriedTimestamp)
                 ELSE IntV(NextCongruent(CarriedTimestamp, CompressedOffset(LogHeader(4)))))

(* A timestamp carried by a message of global 21 became the timestamp of   *)
(* the one record, of global 20, that has a latitude but no field 253.     *)
C19_Witness ==
    /\ TimestampThenRecord
    /\ DefinitionAt(1).global = 21
    /\ IsData(LogHeader(4))
    /\ Len(records) = 1
    /\ 0 \in DOMAIN records[1]
    /\ records[1][253] = IntV(60)
    /\ CarriedTimestamp = 60

-----------------------------------------------------------------------------
(* parse() has ended: it returned its records or an exception left it.     *)
ParseEnded == pc \in {"returned", "written", "raised"}

(* C20: for every input buffer parse() terminates, normally or with an     *)
(* error: the cursor never moves backward, every iteration of the loop     *)
(* moves it forward by at least one byte, and the end offset does not      *)
(* change once the header is read.                                         *)
C20_Step ==
    /\ pos' >= pos
    /\ pc = "loop" => end' = end
    /\ (pc = "loop" /\ Len(log') > Len(log)) => pos' > pos
    /\ (pc = "loop" /\ pc' = "loop") => (pos' > pos /\ pos < end)
    /\ pc \in {"returned", "written", "raised"} => (pos' = pos /\ end' = end)

(* C20, as stated above, in every state and at every step of a run.        *)
C20_ParseTerminates ==
    /\ <>ParseEnded
    /\ [][C20_Step]_vars

(* parse() returned after four iterations of its loop, at the end offset.  *)
C20_Witness ==
    /\ pc = "returned"
    /\ Len(log) = 4
    /\ pos = end
    /\ pos = Len(data)

-----------------------------------------------------------------------------
(* C21: a definition message changes only the definition-table entry of    *)
(* its own slot and the cursor: the entries of the other slots, the        *)
(* last-known timestamp and the record list stay as they are; a data or    *)
(* compressed-timestamp message leaves the whole definition table as it    *)
(* is; and no step modifies or removes a record already appended.          *)
C21_Step ==
    /\ (AtMessage /\ IsDefinition(HeaderByte)) =>
          /\ DOMAIN defs \subseteq DOMAIN defs'
          /\ DOMAIN defs' \subseteq DOMAIN defs \cup {NormalSlot(HeaderByte)}
          /\ \A s \in DOMAIN defs : s # NormalSlot(HeaderByte) => defs'[s] = defs[s]
          /\ last_timestamp' = last_timestamp
          /\ records' = records
          /\ fields' = fields
    /\ (AtMessage /\ ~IsDefinition(HeaderByte)) => defs' = defs
    /\ ~AtMessage => defs' = defs
    /\ Len(records') >= Len(records)
    /\ Len(records') <= Len(records) + 1
    /\ SubSeq(records', 1, Len(records)) = records

(* C21, as stated above, in every state and at every step of a run.        *)
C21_FrameOfMessages == [][C21_Step]_vars

(* A definition for slot 1 was read while slot 0 was defined, a timestamp  *)
(* was known and a record had been appended: all three are still there.    *)
C21_Witness ==
    /\ Len(log) = 3
    /\ IsDefinition(LogHeader(3))
    /\ LogSlot(3) = 1
    /\ DOMAIN defs = {0, 1}
    /\ defs[0] # defs[1]
    /\ Len(records) = 1
    /\ last_timestamp # None
    /\ pc = "loop"

-----------------------------------------------------------------------------
(* C22: a compressed-timestamp message met while no timestamp has been     *)
(* seen (last_timestamp is None) is handled as if the last-known timestamp *)
(* were 0: the timestamp is the offset o when o > 0 and 32 when o = 0; it  *)
(* becomes the last-known timestamp, even when the message then fails to   *)
(* decode, and the timestamp of the decoded message and of its record.  A  *)
(* known timestamp never becomes unknown again.                            *)
C22_Step ==
    /\ (AtMessage /\ IsCompressed(HeaderByte) /\ last_timestamp = None) =>
          LET o == CompressedOffset(HeaderByte)
              ts == IF o > 0 THEN o ELSE 32
          IN  /\ last_timestamp' = IntV(ts)
              /\ pc' = "loop" =>
                    /\ 253 \in DOMAIN fields'
                    /\ fields'[253] = IntV(ts)
                    /\ Len(records') > Len(records) =>
                          records'[Len(records')][253] = IntV(ts)
    /\ last_timestamp # None => last_timestamp' # None

(* C22, as stated above, in every state and at every step of a run.        *)
C22_FirstCompressedCountsFromZero == [][C22_Step]_vars

(* The first message after the definition was a compressed-timestamp       *)
(* message with offset 0: its record is stamped 32.                        *)
C22_Witness ==
    /\ Len(log) = 2
    /\ IsDefinition(LogHeader(1))
    /\ IsCompressed(LogHeader(2))
    /\ CompressedOffset(LogHeader(2)) = 0
    /\ pc = "loop"
    /\ last_timestamp = IntV(32)
    /\ Len(records) = 1
    /\ records[1][253] = IntV(32)

-----------------------------------------------------------------------------
(* The header byte under the cursor, taken apart bit by bit.               *)
Bit(h, k) == (h \div Pow2(k)) % 2
LowBits(h, n) == h % Pow2(n)
Bits56(h) == Bit(h, 5) + 2 * Bit(h, 6)

(* The message under the cursor was decoded with the definition of slot s: *)
(* it consumed the sizes of that definition and produced its fields.       *)
DecodedWithSlot(s) ==
    /\ s \in DOMAIN defs
    /\ pos' = pos + 1 + SumSizes(defs[s].fields)
    /\ FieldIds(defs[s]) \subseteq DOMAIN fields'
    /\ DOMAIN fields' \subseteq FieldIds(defs[s]) \cup {253}

(* C23: the keys of the definition table lie in 0..15; a compressed-       *)
(* timestamp header addresses the slot in bits 5-6, which is in 0..3, with *)
(* the offset in bits 0-4, which is in 0..31; a normal header addresses    *)
(* the slot in bits 0-3 whatever bits 4 and 5 are.                         *)
C23_Step ==
    AtMessage =>
        LET h == HeaderByte IN
        IF Bit(h, 7) = 1
        THEN /\ Bits56(h) \in 0..3
             /\ LowBits(h, 5) \in 0..31
             /\ pc' = "loop" =>
                   /\ DecodedWithSlot(Bits56(h))
                   /\ last_timestamp'.v % 32 = LowBits(h, 5)
             /\ (Bits56(h) \notin DOMAIN defs) => pc' = "raised"
        ELSE IF Bit(h, 6) = 1
        THEN pc' = "loop" =>
                /\ DOMAIN defs' = DOMAIN defs \cup {LowBits(h, 4)}
                /\ defs'[LowBits(h, 4)] = parse_definition(pos + 1).def
        ELSE /\ pc' = "loop" => DecodedWithSlot(LowBits(h, 4))
             /\ (LowBits(h, 4) \notin DOMAIN defs) => (pc' = "raised" /\ err' = "ValueError")

(* C23, as stated above, in every state and at every step of a run.        *)
C23_SlotsInRange ==
    /\ [](DOMAIN defs \subseteq 0..15)
    /\ [][C23_Step]_vars

(* Slot 15 was defined by a header with bits 4 and 5 set and a data        *)
(* message whose header has bit 4 set was decoded with that definition.    *)
C23_Witness ==
    /\ Len(log) = 2
    /\ LogHeader(1) = 64 + 48 + 15
    /\ LogHeader(2) = 16 + 15
    /\ pc = "loop"
    /\ DOMAIN defs = {15}
    /\ fields = (253 :> IntV(7))

-----------------------------------------------------------------------------
(* C24: decoding is deterministic and isolated per pass.  Two instances on *)
(* the same buffer that have read the same number of messages are in the   *)
(* same state, whatever the interleaving, so they return identical record  *)
(* lists; and a step of one pass never changes the definition table, the   *)
(* cursor, the last-known timestamp or anything else of another instance.  *)
C24_Deterministic ==
    \A i, j \in Instances :
        (/\ Inst(i).data = Inst(j).data
         /\ Inst(i).pc = Inst(j).pc
         /\ Len(Inst(i).log) = Len(Inst(j).log))
            => Inst(i) = Inst(j)

C24_Step ==
    \A i \in Instances :
        \/ (i = active /\ active' = active)
        \/ (i \in Instances' /\ Inst(i)' = Inst(i))

-----------------------------------------------------------------------------
(* The web service of app/backend.  Requests are handled concurrently: a   *)
(* handler gives way to the others at each await, and Redis removes a key  *)
(* when its time to live has run out.                                      *)

MaxRequests == 2      \* HTTP requests in one run

SEARCH_CACHE_TTL == 90
MVT_CACHE_TTL == 600

ListV(s) == [kind |-> "list", v |-> s]
DictV(d) == [kind |-> "dict", v |-> d]

(* bool(x): None, the empty bytes, text, list and dict, and 0 are false.   *)
Truthy(x) ==
    CASE x.kind = "None" -> FALSE
      [] x.kind \in {"bytes", "str", "list", "tuple"} -> Len(x.v) > 0
      [] x.kind = "dict" -> DOMAIN x.v # {}
      [] x.kind = "int" -> x.v # 0
      [] OTHER -> TRUE

(* a or b                                                                  *)
Or(a, b) == IF Truthy(a) THEN a ELSE b

(* orjson.dumps and orjson.loads: the bytes of a document are not the      *)
(* document.                                                               *)
dumps(x) == [kind |-> "bytes", v |-> <<x>>]
loads(b) == b.v[1]

(* The category names, in the order sorted() puts them.                    *)
Categories == <<"cafe", "water">>
Rank(c) == CHOOSE i \in 1..Len(Categories) : Categories[i] = c

RECURSIVE Insert(_, _)
Insert(c, s) ==
    IF s = <<>> \/ Rank(c) <= Rank(s[1])
    THEN <<c>> \o s
    ELSE <<s[1]>> \o Insert(c, Tail(s))

RECURSIVE sorted(_)
sorted(s) == IF s = <<>> THEN <<>> ELSE Insert(s[1], sorted(Tail(s)))

(* The filters query parameter is absent (None) or a text that is no JSON  *)
(* document, given by its parts between commas: "" is <<"">>, "cafe" is    *)
(* <<"cafe">>, "water,cafe" is <<"water", "cafe">>, "," is <<"", "">>.     *)
parse_filters(filters_param) ==
    IF filters_param = None \/ filters_param.v = <<"">>
    THEN None
    ELSE IF Len(filters_param.v) > 1
         THEN ListV(SelectSeq(filters_param.v, LAMBDA part : part # ""))
         ELSE ListV(filters_param.v)

(* The digest of the payload stands for itself: no two payloads collide.   *)
make_search_cache_key(route_wkb_hex, radius_m, filters) ==
    <<"q", [route |-> route_wkb_hex, radius |-> radius_m,
            filters |-> IF Truthy(filters) THEN sorted(filters.v) ELSE <<>>]>>

make_mvt_cache_key(z, x, y, filters) ==
    <<"mvt:amenities", [z |-> z, x |-> x, y |-> y,
                        filters |-> IF Truthy(filters) THEN sorted(filters.v) ELSE <<>>]>>

(* cache.py: client.get gives None for a key that is not set; a value is   *)
(* set with ex=ttl.                                                        *)
get_bytes(key) == IF key \in DOMAIN redis THEN redis[key].value ELSE None
get_json(key) == IF get_bytes(key) = None THEN None ELSE loads(get_bytes(key))
set_bytes(key, value, ttl) == Put(redis, key, [value |-> value, ex |-> ttl])
set_json(key, value, ttl) == set_bytes(key, dumps(value), ttl)

(* The routes table: one route; a request may name a route that is not in  *)
(* it.                                                                     *)
routes == {[route_id |-> 1, name |-> "Seed route", wkb_hex |-> "0102000020E6100000"]}
RouteIds == {1, 2}

(* The rows the amenities table may hold: the tile each lies in and its    *)
(* distance to the route.                                                  *)
Tiles == {<<14, 8801, 5371>>, <<14, 8801, 5372>>}
AmenityRows ==
    { [id |-> 1, category |-> "cafe", tile |-> <<14, 8801, 5371>>, dist_m |-> 300],
      [id |-> 2, category |-> "water", tile |-> <<14, 8801, 5371>>, dist_m |-> 700] }
Radii == {500, 800}
FilterParams ==
    {None, StrV(<<"">>), StrV(<<"cafe">>), StrV(<<"cafe", "water">>),
     StrV(<<"water", "cafe">>), StrV(<<"", "">>)}

InCategories(a, categories) ==
    categories = None \/ \E i \in 1..Len(categories.v) : categories.v[i] = a.category

RECURSIVE OrderByDist(_)
OrderByDist(S) ==
    IF S = {} THEN <<>>
    ELSE LET a == CHOOSE a \in S : \A b \in S : a.dist_m <= b.dist_m
         IN  <<a>> \o OrderByDist(S \ {a})

(* ROUTE_GEOJSON_SQL: the row of the route, None if there is none.         *)
ROUTE_GEOJSON_SQL(route_id) ==
    IF \E r \in routes : r.route_id = route_id
    THEN DictV(CHOOSE r \in routes : r.route_id = route_id)
    ELSE None

(* SEARCH_SQL: the amenities within radius_m of the route, of the given    *)
(* categories if any, nearest first.                                       *)
SEARCH_SQL(route_id, radius_m, categories) ==
    OrderByDist({a \in amenities : a.dist_m <= radius_m /\ InCategories(a, categories)})

(* MVT_SQL: the encoded features of the tile, of the given categories if   *)
(* any; the bytes are the features' ids.                                   *)
MVT_SQL(z, x, y, categories) ==
    LET rows == OrderByDist({a \in amenities :
                               a.tile = <<z, x, y>> /\ InCategories(a, categories)})
    IN  BytesV([i \in 1..Len(rows) |-> rows[i].id])

(* The handler has made no key (yet).                                      *)
NoKey == <<>>

Handler(endpoint, args, key) ==
    [endpoint |-> endpoint, args |-> args, key |-> key, pc |-> "get",
     queries |-> 0, result |-> None, response |-> None]

Answer(h, status, content) ==
    [h EXCEPT !.pc = "done", !.response = [status |-> status, content |-> content]]

Query(h) == [h EXCEPT !.queries = h.queries + 1]

cache_vars == <<redis, expired, requests>>

script_vars ==
    <<argv, stdout, opened, exit_status, data, pc, pos, end, defs, last_timestamp,
      records, fields, err, output, log, active, passes>>

(* amenities_tile, to its first answer: the key, the cache read, and the   *)
(* cached tile if there is one.                                            *)
AmenitiesTile ==
    /\ Len(requests) < MaxRequests
    /\ \E t \in Tiles, filters \in FilterParams :
         LET filters_list == parse_filters(filters)
             cache_key == make_mvt_cache_key(t[1], t[2], t[3], filters_list)
             cached == get_bytes(cache_key)
             h == Handler("mvt", [tile |-> t, filters_list |-> filters_list], cache_key)
         IN  requests' = Append(requests,
                 IF Truthy(cached)
                 THEN Answer(h, 200, cached)
                 ELSE [h EXCEPT !.pc = "query"])
    /\ UNCHANGED <<redis, expired, amenities, jobs, files>>
    /\ UNCHANGED script_vars

(* categories = filters_list or None; row = await db.fetchrow(MVT_SQL...)  *)
(* tile = row["st_asmvt"] if row and row["st_asmvt"] else b""              *)
AmenitiesTileQuery ==
    /\ \E r \in DOMAIN requests :
         /\ requests[r].endpoint = "mvt"
         /\ requests[r].pc = "query"
         /\ LET h == requests[r]
                t == h.args.tile
                categories == Or(h.args.filters_list, None)
                st_asmvt == MVT_SQL(t[1], t[2], t[3], categories)
                tile == IF Truthy(st_asmvt) THEN st_asmvt ELSE BytesV(<<>>)
            IN  requests' = [requests EXCEPT
                                ![r] = [Query(h) EXCEPT !.pc = "set", !.result = tile]]
    /\ UNCHANGED <<redis, expired, amenities, jobs, files>>
    /\ UNCHANGED script_vars

(* await cache.set_bytes(cache_key, tile, MVT_CACHE_TTL); return Response  *)
AmenitiesTileStore ==
    /\ \E r \in DOMAIN requests :
         /\ requests[r].endpoint = "mvt"
         /\ requests[r].pc = "set"
         /\ redis' = set_bytes(requests[r].key, requests[r].result, MVT_CACHE_TTL)
         /\ requests' = [requests EXCEPT
                            ![r] = Answer(requests[r], 200, requests[r].result)]
    /\ UNCHANGED <<expired, amenities, jobs, files>>
    /\ UNCHANGED script_vars

(* search_route_amenities, to its first await after ensure_route: the      *)
(* route's row is fetched from the database, 404 if there is none, and     *)
(* the key is made of the route's geometry.                                *)
SearchRouteAmenities ==
    /\ Len(requests) < MaxRequests
    /\ \E route_id \in RouteIds, radius_m \in Radii, filters \in FilterParams :
         LET record == ROUTE_GEOJSON_SQL(route_id)
             filters_list == parse_filters(filters)
             h == Query(Handler("search",
                                [route_id |-> route_id, radius_m |-> radius_m,
                                 filters_list |-> filters_list], NoKey))
         IN  requests' = Append(requests,
                 IF record = None
                 THEN Answer(h, 404, StrV("Route not found"))
                 ELSE [h EXCEPT !.key = make_search_cache_key(record.v.wkb_hex,
                                                              radius_m, filters_list)])
    /\ UNCHANGED <<redis, expired, amenities, jobs, files>>
    /\ UNCHANGED script_vars

(* cached = await cache.get_json(cache_key); if cached: return ...         *)
SearchCached ==
    /\ \E r \in DOMAIN requests :
         /\ requests[r].endpoint = "search"
         /\ requests[r].pc = "get"
         /\ LET cached == get_json(requests[r].key)
            IN  requests' = [requests EXCEPT ![r] =
                    IF Truthy(cached)
                    THEN Answer(requests[r], 200, cached)
                    ELSE [requests[r] EXCEPT !.pc = "query"]]
    /\ UNCHANGED <<redis, expired, amenities, jobs, files>>
    /\ UNCHANGED script_vars

(* rows = await db.fetch(SEARCH_SQL, route_id, radius_m, categories)       *)
(* response = SearchResponse(route=route_info, items=items)                *)
SearchQuery ==
    /\ \E r \in DOMAIN requests :
         /\ requests[r].endpoint = "search"
         /\ requests[r].pc = "query"
         /\ LET h == requests[r]
                categories == Or(h.args.filters_list, None)
                rows == SEARCH_SQL(h.args.route_id, h.args.radius_m, categories)
                items == [i \in 1..Len(rows) |->
                             [id |-> rows[i].id, category |-> rows[i].category,
                              distance_m |-> rows[i].dist_m]]
                response == DictV([route |-> h.args.route_id, items |-> items])
            IN  requests' = [requests EXCEPT
                                ![r] = [Query(h) EXCEPT !.pc = "set", !.result = response]]
    /\ UNCHANGED <<redis, expired, amenities, jobs, files>>
    /\ UNCHANGED script_vars

(* await cache.set_json(cache_key, response..., SEARCH_CACHE_TTL)          *)
SearchStore ==
    /\ \E r \in DOMAIN requests :
         /\ requests[r].endpoint = "search"
         /\ requests[r].pc = "set"
         /\ redis' = set_json(requests[r].key, requests[r].result, SEARCH_CACHE_TTL)
         /\ requests' = [requests EXCEPT
                            ![r] = Answer(requests[r], 200, requests[r].result)]
    /\ UNCHANGED <<expired, amenities, jobs, files>>
    /\ UNCHANGED script_vars

(* Redis removes a key whose time to live (ex) has run out.                *)
Expire ==
    /\ \E k \in DOMAIN redis :
         /\ redis' = [j \in DOMAIN redis \ {k} |-> redis[j]]
         /\ expired' = expired \cup {k}
    /\ UNCHANGED <<amenities, requests, jobs, files>>
    /\ UNCHANGED script_vars

(* No script runs beside the service.                                      *)
NoScript ==
    /\ argv = 0
    /\ data = <<>>
    /\ stdout = <<>>
    /\ opened = FALSE
    /\ exit_status = None
    /\ active = 1
    /\ passes = EmptyDict
    /\ pc = "main"
    /\ pos = 0
    /\ end = 0
    /\ defs = EmptyDict
    /\ last_timestamp = None
    /\ records = <<>>
    /\ fields = EmptyDict
    /\ err = "none"
    /\ output = None
    /\ log = <<>>

(* The service has started on some contents of the amenities table, with   *)
(* an empty cache.                                                         *)
CacheInit ==
    /\ NoScript
    /\ redis = EmptyDict
    /\ expired = {}
    /\ amenities \in SUBSET AmenityRows
    /\ requests = <<>>
    /\ jobs = EmptyDict
    /\ files = EmptyDict

CacheNext ==
    \/ AmenitiesTile
    \/ AmenitiesTileQuery
    \/ AmenitiesTileStore
    \/ SearchRouteAmenities
    \/ SearchCached
    \/ SearchQuery
    \/ SearchStore
    \/ Expire

CacheSpec == CacheInit /\ [][CacheNext]_vars

(* Request r reads the cache in this step.                                 *)
ReadsCache(r) ==
    /\ r \in DOMAIN requests'
    /\ requests'[r].pc \in {"query", "done"}
    /\ requests'[r].key # NoKey
    /\ \/ r \notin DOMAIN requests
       \/ requests[r].pc = "get"

C25_Step ==
    \A r \in DOMAIN requests' :
        (ReadsCache(r) /\ requests'[r].key \in DOMAIN redis)
            => /\ requests'[r].pc = "done"
               /\ requests'[r].queries = 0
               /\ requests'[r].response.status = 200
               /\ requests'[r].response.content =
                      (IF requests'[r].endpoint = "mvt"
                       THEN redis[requests'[r].key].value
                       ELSE loads(redis[requests'[r].key].value))

(* C25: once a tile or a search result has been computed and stored under  *)
(* its key, a later request for the same key that reads the cache before   *)
(* the key expires is answered with the stored result and has queried the  *)
(* database not at all, also when the stored tile is empty.                *)
C25_ServedFromCache == [][C25_Step]_vars

-----------------------------------------------------------------------------
(* The export job: POST /export/gpx queues process_gpx_job, an RQ worker   *)
(* in another process runs it, and GET /export/status/{job_id} reports on  *)
(* it.  The worker and the handlers interleave at every Redis command.     *)

GPX_RESULT_TTL == 60 * 60 * 24

(* The ids RQ gives to jobs, and the routes and radii exports are asked    *)
(* for.                                                                    *)
JobIds == {"job-a", "job-b"}

(* The statements of process_gpx_job after its arguments are read, in      *)
(* order: asyncio.run(runner()), build_gpx (output_file.open, then         *)
(* fh.write and the end of the with block), redis_conn.setex, return.      *)
process_gpx_job_publish_first == <<"fetch", "publish", "open", "write", "return">>
process_gpx_job_order == <<"fetch", "open", "write", "publish", "return">>

(* The statement after statement s.                                        *)
After(s) ==
    LET i == CHOOSE i \in 1..Len(process_gpx_job_order) : process_gpx_job_order[i] = s
    IN  IF i < Len(process_gpx_job_order) THEN process_gpx_job_order[i + 1] ELSE "done"

output_path(job_id) == <<job_id, ".gpx">>
result_url(job_id) == StrV(<<"/files/", output_path(job_id)>>)
result_key(job_id) == <<"gpx:", job_id>>

At(job_id, s) ==
    /\ job_id \in DOMAIN jobs
    /\ jobs[job_id].status = "started"
    /\ jobs[job_id].pc = s

Goes(job_id) == jobs' = [jobs EXCEPT ![job_id].pc = After(jobs[job_id].pc)]

(* An exception leaves process_gpx_job: RQ marks the job failed.           *)
Fails(job_id) == jobs' = [jobs EXCEPT ![job_id].pc = "done", ![job_id].status = "failed"]

(* export_gpx: q.enqueue(process_gpx_job, request.model_dump(mode="json")) *)
ExportGpx ==
    /\ \E job_id \in JobIds \ DOMAIN jobs, route_id \in RouteIds :
         jobs' = Put(jobs, job_id,
                     [status |-> "queued", pc |-> "queued", route_id |-> route_id,
                      radius_m |-> 1000, filters |-> None, route |-> None, pois |-> <<>>])
    /\ UNCHANGED <<redis, expired, amenities, requests, files>>
    /\ UNCHANGED script_vars

(* run_worker: the worker takes a queued job, marks it started and calls   *)
(* process_gpx_job, which reads its arguments.                             *)
RunWorker ==
    /\ \E job_id \in DOMAIN jobs :
         /\ jobs[job_id].status = "queued"
         /\ jobs' = [jobs EXCEPT ![job_id].status = "started",
                                 ![job_id].pc = process_gpx_job_order[1]]
    /\ UNCHANGED <<redis, expired, amenities, requests, files>>
    /\ UNCHANGED script_vars

(* route, pois = asyncio.run(runner()): _fetch_route_and_pois raises       *)
(* ValueError if the route is not found.                                   *)
FetchRouteAndPois ==
    /\ \E job_id \in DOMAIN jobs :
         /\ At(job_id, "fetch")
         /\ LET j == jobs[job_id]
                route_row == ROUTE_GEOJSON_SQL(j.route_id)
                pois_rows == SEARCH_SQL(j.route_id, j.radius_m, Or(j.filters, None))
            IN  IF route_row = None
                THEN Fails(job_id)
                ELSE jobs' = [jobs EXCEPT
                                 ![job_id].pc = After("fetch"),
                                 ![job_id].route = route_row,
                                 ![job_id].pois = [i \in 1..Len(pois_rows) |-> pois_rows[i].id]]
    /\ UNCHANGED <<redis, expired, amenities, requests, files>>
    /\ UNCHANGED script_vars

(* build_gpx: with output_file.open("w", encoding="utf-8") as fh creates   *)
(* the file, or empties it.                                                *)
BuildGpxOpen ==
    /\ \E job_id \in DOMAIN jobs :
         /\ At(job_id, "open")
         /\ files' = Put(files, output_path(job_id), [closed |-> FALSE, text |-> <<>>])
         /\ Goes(job_id)
    /\ UNCHANGED <<redis, expired, amenities, requests>>
    /\ UNCHANGED script_vars

(* fh.write(gpx.to_xml()) and the end of the with block: the document is   *)
(* written and the file closed; or the write raises (the disk is full) and *)
(* the file is closed as far as it was written.                            *)
BuildGpxWrite ==
    /\ \E job_id \in DOMAIN jobs, written \in BOOLEAN :
         /\ At(job_id, "write")
         /\ output_path(job_id) \in DOMAIN files
         /\ IF written
            THEN /\ files' = Put(files, output_path(job_id),
                                 [closed |-> TRUE,
                                  text |-> <<"<?xml", jobs[job_id].route.v.name,
                                             jobs[job_id].pois>>])
                 /\ Goes(job_id)
            ELSE /\ files' = Put(files, output_path(job_id), [closed |-> TRUE, text |-> <<>>])
                 /\ Fails(job_id)
    /\ UNCHANGED <<redis, expired, amenities, requests>>
    /\ UNCHANGED script_vars

(* redis_conn.setex(f"gpx:{job_id}", GPX_RESULT_TTL,                       *)
(*                  orjson.dumps({"url": result_url}))                     *)
PublishUrl ==
    /\ \E job_id \in DOMAIN jobs :
         /\ At(job_id, "publish")
         /\ redis' = set_json(result_key(job_id), DictV([url |-> result_url(job_id)]),
                              GPX_RESULT_TTL)
         /\ Goes(job_id)
    /\ UNCHANGED <<expired, amenities, requests, files>>
    /\ UNCHANGED script_vars

(* return result_url: the worker marks the job finished.                   *)
FinishJob ==
    /\ \E job_id \in DOMAIN jobs :
         /\ At(job_id, "return")
         /\ jobs' = [jobs EXCEPT ![job_id].pc = After("return"),
                                 ![job_id].status = "finished"]
    /\ UNCHANGED <<redis, expired, amenities, requests, files>>
    /\ UNCHANGED script_vars

(* export_status, to Job.fetch: 404 if there is no such job.               *)
ExportStatus ==
    /\ Len(requests) < MaxRequests
    /\ \E job_id \in JobIds :
         LET h == Handler("status", [job_id |-> job_id], result_key(job_id))
         IN  requests' = Append(requests,
                 IF job_id \notin DOMAIN jobs
                 THEN Answer(h, 404, StrV("Job not found"))
                 ELSE [h EXCEPT !.pc = "status"])
    /\ UNCHANGED <<redis, expired, amenities, jobs, files>>
    /\ UNCHANGED script_vars

(* status = job.get_status(refresh=True)                                   *)
ExportStatusGetStatus ==
    /\ \E r \in DOMAIN requests :
         /\ requests[r].endpoint = "status"
         /\ requests[r].pc = "status"
         /\ requests' = [requests EXCEPT
                ![r] = [requests[r] EXCEPT
                           !.pc = "url",
                           !.result = StrV(jobs[requests[r].args.job_id].status)]]
    /\ UNCHANGED <<redis, expired, amenities, jobs, files>>
    /\ UNCHANGED script_vars

(* url_data = redis_conn.get(f"gpx:{job_id}"); url = None                  *)
(* if url_data: url = orjson.loads(url_data).get("url")                    *)
(* return ExportStatusResponse(status=status, url=url)                     *)
ExportStatusGetUrl ==
    /\ \E r \in DOMAIN requests :
         /\ requests[r].endpoint = "status"
         /\ requests[r].pc = "url"
         /\ LET url_data == get_bytes(requests[r].key)
                url == IF Truthy(url_data) THEN loads(url_data).v.url ELSE None
            IN  requests' = [requests EXCEPT
                    ![r] = Answer(requests[r], 200,
                                  DictV([status |-> requests[r].result.v, url |-> url]))]
    /\ UNCHANGED <<redis, expired, amenities, jobs, files>>
    /\ UNCHANGED script_vars

(* The service has started: the amenities table is seeded, nothing is      *)
(* queued and the output directory is empty.                               *)
ExportInit ==
    /\ NoScript
    /\ redis = EmptyDict
    /\ expired = {}
    /\ amenities = AmenityRows
    /\ requests = <<>>
    /\ jobs = EmptyDict
    /\ files = EmptyDict

ExportNext ==
    \/ ExportGpx
    \/ RunWorker
    \/ FetchRouteAndPois
    \/ BuildGpxOpen
    \/ BuildGpxWrite
    \/ PublishUrl
    \/ FinishJob
    \/ Expire
    \/ ExportStatus
    \/ ExportStatusGetStatus
    \/ ExportStatusGetUrl

ExportSpec == ExportInit /\ [][ExportNext]_vars

(* The file a result URL names is in the output directory, closed, with    *)
(* the whole document in it.                                               *)
Written(url) ==
    /\ url.v[1] = "/files/"
    /\ url.v[2] \in DOMAIN files
    /\ files[url.v[2]].closed
    /\ files[url.v[2]].text # <<>>
    /\ files[url.v[2]].text[1] = "<?xml"

(* The answers of /export/status so far.                                   *)
StatusAnswers ==
    {r \in DOMAIN requests :
        /\ requests[r].endpoint = "status"
        /\ requests[r].pc = "done"
        /\ requests[r].response.status = 200}

StatusOf(r) == requests[r].response.content.v.status
UrlOf(r) == requests[r].response.content.v.url

C26_Inv ==
    /\ \A job_id \in JobIds :
          result_key(job_id) \in DOMAIN redis
              => /\ loads(redis[result_key(job_id)].value).v.url = result_url(job_id)
                 /\ Written(result_url(job_id))
    /\ \A r \in StatusAnswers :
          UrlOf(r) # None
              => /\ UrlOf(r) = result_url(requests[r].args.job_id)
                 /\ Written(UrlOf(r))

(* A status request that answers in this step with status finished, while  *)
(* the job's result key has not expired, answers with the job's URL.       *)
C26_Step ==
    \A r \in DOMAIN requests :
        (/\ requests[r].endpoint = "status"
         /\ requests[r].pc = "url"
         /\ requests'[r].pc = "done"
         /\ requests'[r].response.content.v.status = "finished"
         /\ requests[r].key \notin expired)
            => requests'[r].response.content.v.url = result_url(requests[r].args.job_id)

(* C26: the result URL of a job is set under gpx:<job_id> only once the    *)
(* job's GPX file is completely written, so whenever /export/status        *)
(* answers with a non-null url the file is there and whole; and an answer  *)
(* with status finished, given while the result key has not expired, has   *)
(* a non-null url.                                                         *)
C26_UrlAfterFile == []C26_Inv /\ [][C26_Step]_vars

(* A status request was answered finished with the URL of a written file,  *)
(* and another one was answered with no URL while the job was running.     *)
C26_Witness ==
    /\ \E r \in StatusAnswers : StatusOf(r) = "finished" /\ UrlOf(r) # None
    /\ \E r \in StatusAnswers : StatusOf(r) = "started" /\ UrlOf(r) = None
    /\ \E name \in DOMAIN files : files[name].closed /\ files[name].text # <<>>

====
